---- MODULE Spec2Model ----
(***************************************************************************)
(* Model of the ClickHouse ingestor's batching loop                        *)
(* (clickhouse_ingestor/src/main.rs): one tokio task that select!s over a  *)
(* NATS subscription and an interval ticker, pushes decoded payloads into  *)
(* `buf` and POSTs the buffer to ClickHouse in `flush`.                    *)
(*                                                                         *)
(* Time is a discrete clock `now`; one unit is far longer than the 5 ms    *)
(* tolerance tokio's Interval applies before it calls a tick "missed".     *)
(* The flush's network call is an await point: the request is issued by    *)
(* the handler that triggers it and the response is a later step           *)
(* (FlushReturn); meanwhile the clock runs and messages queue up in `sub`. *)
(*                                                                         *)
(* The producer side, the geyser plugin of src/lib.rs, is modelled by the  *)
(* variables target_wallet .. last and the specification PluginSpec: the   *)
(* validator calls on_load and update_account on one LoggerPlugin.         *)
(***************************************************************************)
EXTENDS Integers, Sequences, FiniteSets, TLC

\* ---- bounds of the model ----
MaxBatch   == 3   \* BATCH_SIZE is drawn from 0..MaxBatch
MaxFlushMs == 2   \* FLUSH_MS is drawn from 1..MaxFlushMs (interval(0) panics at start-up)
MaxTime    == 2   \* the clock stops at MaxTime
MaxMsgs    == 3   \* messages published on the subject
MaxCalls   == 3   \* calls the validator makes on the plugin

VARIABLES
    batch_size,   \* main.rs:18
    flush_ms,     \* main.rs:19
    now,          \* the clock, in time units since `interval` was created
    ticker,       \* deadline of the ticker's next tick
    sub,          \* payloads received by the subscription, not yet taken by the loop
    closed,       \* the subscription's stream has been closed
    published,    \* number of messages published so far
    buf,          \* main.rs:43
    pc,           \* "select" | "flushing" | "done" (Ok(())) | "failed" (Err)
    accepted,     \* history: every String pushed to buf, in push order
    flushes,      \* history: every POST issued by flush, in issue order
    dropped,      \* history: payloads rejected by String::from_utf8 (stderr line 62)
    target_wallet, \* lib.rs:45, Option<[u8; 32]>
    NATS,         \* lib.rs:18, OnceLock<nats::Connection>
    SUBJECT,      \* lib.rs:19, OnceLock<String>
    wire,         \* history: what nc.publish sent, in order
    loaded,       \* history: the Params of the last config that on_load parsed
    calls,        \* number of calls made on the plugin
    last          \* history: the last call on the plugin and what it returned

ingestor == <<batch_size, flush_ms, now, ticker, sub, closed, published, buf, pc,
              accepted, flushes, dropped>>

plugin == <<target_wallet, NATS, SUBJECT, wire, loaded, calls, last>>

vars == <<batch_size, flush_ms, now, ticker, sub, closed, published, buf, pc,
          accepted, flushes, dropped,
          target_wallet, NATS, SUBJECT, wire, loaded, calls, last>>

\* ---- helpers ----
Last(s) == s[Len(s)]

NEWLINE == 10

\* Number of bytes of the UTF-8 scalar that starts at s[i], 0 when s[i..] does
\* not start with a well-formed scalar (the table of core::str::from_utf8).
Utf8Width(s, i) ==
    LET b0 == s[i]
        Cont(k, lo, hi) == i + k <= Len(s) /\ s[i + k] >= lo /\ s[i + k] <= hi
    IN  IF b0 <= 127 THEN 1
        ELSE IF b0 >= 194 /\ b0 <= 223
             THEN IF Cont(1, 128, 191) THEN 2 ELSE 0
        ELSE IF b0 = 224
             THEN IF Cont(1, 160, 191) /\ Cont(2, 128, 191) THEN 3 ELSE 0
        ELSE IF (b0 >= 225 /\ b0 <= 236) \/ b0 = 238 \/ b0 = 239
             THEN IF Cont(1, 128, 191) /\ Cont(2, 128, 191) THEN 3 ELSE 0
        ELSE IF b0 = 237
             THEN IF Cont(1, 128, 159) /\ Cont(2, 128, 191) THEN 3 ELSE 0
        ELSE IF b0 = 240
             THEN IF Cont(1, 144, 191) /\ Cont(2, 128, 191) /\ Cont(3, 128, 191) THEN 4 ELSE 0
        ELSE IF b0 >= 241 /\ b0 <= 243
             THEN IF Cont(1, 128, 191) /\ Cont(2, 128, 191) /\ Cont(3, 128, 191) THEN 4 ELSE 0
        ELSE IF b0 = 244
             THEN IF Cont(1, 128, 143) /\ Cont(2, 128, 191) /\ Cont(3, 128, 191) THEN 4 ELSE 0
        ELSE 0

RECURSIVE Utf8From(_, _)
Utf8From(s, i) ==
    IF i > Len(s) THEN TRUE
    ELSE LET w == Utf8Width(s, i)
         IN  IF w = 0 THEN FALSE ELSE Utf8From(s, i + w)

\* String::from_utf8(msg.payload.to_vec()): Ok(the same bytes) or Err
from_utf8_unchecked(payload) == [ok |-> TRUE, s |-> payload]
from_utf8(payload) ==
    IF Utf8From(payload, 1) THEN [ok |-> TRUE, s |-> payload]
                            ELSE [ok |-> FALSE, s |-> <<>>]

\* buf.join("\n") + "\n"
RECURSIVE join(_)
join(b) ==
    IF b = <<>> THEN <<>>
    ELSE IF Len(b) = 1 THEN b[1]
    ELSE b[1] \o <<NEWLINE>> \o join(Tail(b))

body_no_trailing_newline(b) == join(b)
body(b) == join(b) \o <<NEWLINE>>

\* buf.push(s)
push_front(b, s) == <<s>> \o b
push(b, s) == Append(b, s)

\* buf.len() >= batch_size
SizeReached_gt(b) == Len(b) > batch_size
SizeReached_never(b) == FALSE
SizeReached(b) == Len(b) >= batch_size

\* !buf.is_empty()
TimerFlushDue_always(b) == TRUE
TimerFlushDue_never(b) == FALSE
TimerFlushDue(b) == b # <<>>

\* interval(period): the first tick completes immediately
FirstTick(t) == t

\* Interval::poll_tick under MissedTickBehavior::Skip: the deadline that
\* follows a tick that was due at `timeout` and is delivered at time `t`
NextTick_burst(timeout, t) == timeout + flush_ms
NextTick(timeout, t) ==
    IF t > timeout
    THEN t + flush_ms - ((t - timeout) % flush_ms)
    ELSE timeout + flush_ms

\* the payloads the publisher may send as its n-th message: a text (ASCII,
\* or ending in a two-byte scalar for even n) or a truncated two-byte scalar
Payloads(n) ==
    { IF n % 2 = 0 THEN <<48 + n, 195, 169>> ELSE <<48 + n>>, <<48 + n, 195>> }

\* what send().await can produce: a transport error, the client's 10 s
\* timeout, or a response with a status
StatusCodes == {200, 500}
Responses ==
    { [kind |-> "send_error", status |-> 0], [kind |-> "timeout", status |-> 0] }
    \cup { [kind |-> "http", status |-> c] : c \in StatusCodes }

\* StatusCode::is_success
is_success(status) == status >= 200 /\ status < 300

\* .send().await.context("POST to ClickHouse")? : the early return of flush
SendFailed(resp) == resp.kind # "http"

\* the Result flush returns for a response
FlushResult(resp) == IF SendFailed(resp) THEN "Err" ELSE "Ok"

\* buf after flush has returned: buf.clear() is reached only past the `?`
BufAfterFlush_keep_on_bad_status(resp, b) ==
    IF SendFailed(resp) \/ ~is_success(resp.status) THEN b ELSE <<>>
BufAfterFlush_no_clear(resp, b) == b
BufAfterFlush(resp, b) == IF SendFailed(resp) THEN b ELSE <<>>

\* what flush reports for a finished request
Outcome(resp) ==
    IF SendFailed(resp) THEN resp.kind
    ELSE IF is_success(resp.status) THEN "success" ELSE "bad_status"

\* the POST that flush issues for buffer b on trigger trg; `due` is the
\* deadline of the tick that triggered it (the time of issue otherwise)
Request(b, trg) ==
    [batch |-> b, body |-> body(b), trigger |-> trg, time |-> now,
     due |-> IF trg = "timer" THEN ticker ELSE now,
     upto |-> Len(accepted'), outcome |-> "pending"]

\* ---- the plugin (src/lib.rs): helpers ----
\* Option<T>: None is the empty sequence, Some(x) the sequence of x
None == <<>>
Some(x) == <<x>>

\* Option::or
or(a, b) == IF a # None THEN a ELSE b

\* Option::unwrap_or / unwrap_or_default / unwrap_or_else
unwrap_or(a, d) == IF a # None THEN a[1] ELSE d

\* OnceLock::set: stores the value only while the cell is empty
OnceSet_overwrite(cell, v) == Some(v)
OnceSet(cell, v) == IF cell = None THEN Some(v) ELSE cell

\* the base58 alphabet of the bs58 crate (Bitcoin's)
Alphabet ==
    <<"1", "2", "3", "4", "5", "6", "7", "8", "9",
      "A", "B", "C", "D", "E", "F", "G", "H", "J", "K", "L", "M", "N",
      "P", "Q", "R", "S", "T", "U", "V", "W", "X", "Y", "Z",
      "a", "b", "c", "d", "e", "f", "g", "h", "i", "j", "k", "m", "n",
      "o", "p", "q", "r", "s", "t", "u", "v", "w", "x", "y", "z">>

\* value of a base58 character, -1 for a character outside the alphabet
Digit(c) ==
    IF \E i \in DOMAIN Alphabet : Alphabet[i] = c
    THEN (CHOOSE i \in DOMAIN Alphabet : Alphabet[i] = c) - 1
    ELSE -1

\* n copies of x
RECURSIVE Repeat(_, _)
Repeat(x, n) == IF n = 0 THEN <<>> ELSE <<x>> \o Repeat(x, n - 1)

\* number of leading elements of s equal to x
RECURSIVE Leading(_, _)
Leading(s, x) ==
    IF s = <<>> \/ Head(s) # x THEN 0 ELSE 1 + Leading(Tail(s), x)

\* big-endian value of a digit sequence in the given base
RECURSIVE FromDigits(_, _, _)
FromDigits(ds, base, acc) ==
    IF ds = <<>> THEN acc ELSE FromDigits(Tail(ds), base, acc * base + Head(ds))

\* big-endian digits of v in the given base, no digit for 0
RECURSIVE ToDigits(_, _)
ToDigits(v, base) ==
    IF v = 0 THEN <<>> ELSE ToDigits(v \div base, base) \o <<v % base>>

\* bs58::decode(b58).into_vec(): each leading '1' is a zero byte, the rest
\* is a base-58 number written in base 256
bs58_decode(b58) ==
    IF \E i \in DOMAIN b58 : Digit(b58[i]) < 0
    THEN [ok |-> FALSE, bytes |-> <<>>]
    ELSE LET z    == Leading(b58, "1")
             rest == [i \in 1..(Len(b58) - z) |-> Digit(b58[z + i])]
         IN  [ok |-> TRUE,
              bytes |-> Repeat(0, z) \o ToDigits(FromDigits(rest, 58, 0), 256)]

\* bs58::encode(key).into_string()
bs58_encode(bytes) ==
    LET z      == Leading(bytes, 0)
        rest   == SubSeq(bytes, z + 1, Len(bytes))
        digits == ToDigits(FromDigits(rest, 256, 0), 58)
    IN  Repeat("1", z) \o [i \in DOMAIN digits |-> Alphabet[digits[i] + 1]]

PUBKEY_LEN == 32

\* set_target_wallet_from_b58, lib.rs:81-91: the new target_wallet, or Err
set_target_wallet_from_b58(tw, b58) ==
    LET d == bs58_decode(b58)
    IN  IF ~d.ok THEN [ok |-> FALSE, target_wallet |-> tw]
        ELSE IF Len(d.bytes) # PUBKEY_LEN THEN [ok |-> FALSE, target_wallet |-> tw]
        ELSE [ok |-> TRUE, target_wallet |-> Some(d.bytes)]

\* matches_target, lib.rs:126-132
matches_target_any(tw, key) == TRUE
matches_target(tw, key) == IF tw # None THEN key = tw[1] ELSE TRUE

DEFAULT_URL == "nats://127.0.0.1:4222"
DEFAULT_SUBJECT == "WALLET.updates"

\* the base58 strings a config may name as target_wallet: two keys, a
\* string that decodes to one byte, and one with a character outside the
\* alphabet
B58_A == Repeat("1", 31) \o <<"2">>
B58_B == Repeat("1", 31) \o <<"3">>
B58_SHORT == <<"2", "z">>
B58_BAD == Repeat("1", 31) \o <<"0">>

TargetStrings == {B58_A, B58_B, B58_SHORT, B58_BAD}

\* the account keys the validator reports
Keys == { bs58_decode(B58_A).bytes, bs58_decode(B58_B).bytes }

\* struct Params, lib.rs:30-38
ParamsDefault == [target_wallet |-> None, nats_url |-> None, nats_subject |-> None]

ParamsChoices ==
    [ target_wallet : {None} \cup { Some(t) : t \in TargetStrings },
      nats_url      : {None, Some("nats://other:4222")},
      nats_subject  : {None, Some("OTHER.updates")} ]

\* the config files on_load may be pointed at: unreadable, not JSON, or a
\* ConfigRoot (lib.rs:21-28) with "params", with "args", with neither, or
\* with both
ConfigFiles ==
    { [readable |-> FALSE, json |-> FALSE, params |-> None, args |-> None],
      [readable |-> TRUE,  json |-> FALSE, params |-> None, args |-> None],
      [readable |-> TRUE,  json |-> TRUE,  params |-> None, args |-> None] }
    \cup { [readable |-> TRUE, json |-> TRUE, params |-> Some(p), args |-> None] :
             p \in ParamsChoices }
    \cup { [readable |-> TRUE, json |-> TRUE, params |-> None, args |-> Some(p)] :
             p \in ParamsChoices }
    \cup { [readable |-> TRUE, json |-> TRUE, params |-> Some(ParamsDefault), args |-> Some(p)] :
             p \in {q \in ParamsChoices : q.target_wallet = Some(B58_A)} }

\* cfg.params.or(cfg.args).unwrap_or_default(), lib.rs:99
EffectiveParams(file) == unwrap_or(or(file.params, file.args), ParamsDefault)

\* load_target_from_config, lib.rs:93-123, on the plugin state st =
\* [target_wallet, NATS, SUBJECT]; connect_ok is what nats::connect does
load_target_from_config(st, file, connect_ok) ==
    IF ~file.readable \/ ~file.json
    THEN [ok |-> FALSE, st |-> st]
    ELSE
      LET params == EffectiveParams(file)
          set    == IF params.target_wallet # None
                    THEN set_target_wallet_from_b58(st.target_wallet, params.target_wallet[1])
                    ELSE [ok |-> TRUE, target_wallet |-> st.target_wallet]
          st1    == [st EXCEPT !.target_wallet = set.target_wallet]
          nats_url == unwrap_or(params.nats_url, DEFAULT_URL)
          subj     == unwrap_or(params.nats_subject, DEFAULT_SUBJECT)
      IN  IF ~set.ok THEN [ok |-> FALSE, st |-> st]
          ELSE IF st1.NATS = None /\ ~connect_ok THEN [ok |-> FALSE, st |-> st1]
          ELSE [ok |-> TRUE,
                st |-> [st1 EXCEPT !.NATS = IF st1.NATS = None
                                             THEN OnceSet(st1.NATS, [url |-> nats_url])
                                             ELSE st1.NATS,
                                   !.SUBJECT = OnceSet(st1.SUBJECT, subj)]]

\* nats_publish, lib.rs:58-70: what is on the wire afterwards
nats_publish(w, bytes, publish_ok) ==
    IF NATS # None
    THEN LET subj == unwrap_or(SUBJECT, DEFAULT_SUBJECT)
         IN  IF publish_ok THEN Append(w, [subject |-> subj, payload |-> bytes]) ELSE w
    ELSE w

\* the account-info versions and what they carry
Versions == {"V0_0_1", "V0_0_2", "V0_0_3"}
AccountInfos == [pubkey : Keys, lamports : {5}, write_version : {9}]

\* struct Row, lib.rs:48-56 (ts is the wall clock and left out)
Row(version, info, slot) ==
    [slot |-> slot,
     write_ver |-> IF version = "V0_0_1" THEN 0 ELSE info.write_version,
     pubkey |-> bs58_encode(info.pubkey),
     lamports |-> info.lamports]

\* ---- initial state: the locals of main when the loop is entered, and
\* the plugin as LoggerPlugin::new leaves it (lib.rs:74-79) ----
Init ==
    /\ batch_size \in 0..MaxBatch
    /\ flush_ms \in 1..MaxFlushMs
    /\ now = 0
    /\ ticker = FirstTick(0)
    /\ sub = <<>>
    /\ closed = FALSE
    /\ published = 0
    /\ buf = <<>>
    /\ pc = "select"
    /\ accepted = <<>>
    /\ flushes = <<>>
    /\ dropped = <<>>
    /\ target_wallet = None
    /\ NATS = None
    /\ SUBJECT = None
    /\ wire = <<>>
    /\ loaded = None
    /\ calls = 0
    /\ last = [op |-> "new", ret |-> "Ok"]

\* ---- environment ----
\* the producer publishes its next message and the subscription, while main
\* holds it, queues it
Publish ==
    /\ UNCHANGED plugin
    /\ pc \in {"select", "flushing"}
    /\ ~closed
    /\ published < MaxMsgs
    /\ \E p \in Payloads(published + 1) : sub' = Append(sub, p)
    /\ published' = published + 1
    /\ UNCHANGED <<batch_size, flush_ms, now, ticker, closed, buf, pc,
                   accepted, flushes, dropped>>

\* the stream of the subscription is closed (connection dropped, drain)
Close ==
    /\ UNCHANGED plugin
    /\ pc \in {"select", "flushing"}
    /\ ~closed
    /\ closed' = TRUE
    /\ UNCHANGED <<batch_size, flush_ms, now, ticker, sub, published, buf, pc,
                   accepted, flushes, dropped>>

\* one time unit passes
Tick ==
    /\ UNCHANGED plugin
    /\ pc \in {"select", "flushing"}
    /\ now < MaxTime
    /\ now' = now + 1
    /\ UNCHANGED <<batch_size, flush_ms, ticker, sub, closed, published, buf, pc,
                   accepted, flushes, dropped>>

\* ---- the loop ----
\* select! branch sub.next() => Some(msg), lines 50-63
OnMessage_unawaited ==
    /\ UNCHANGED plugin
    /\ pc \in {"select", "flushing"}
    /\ sub # <<>>
    /\ sub' = Tail(sub)
    /\ LET r == from_utf8(Head(sub)) IN
         IF r.ok
         THEN /\ accepted' = Append(accepted, r.s)
              /\ dropped' = dropped
              /\ buf' = push(buf, r.s)
              /\ IF SizeReached(buf')
                 THEN /\ flushes' = Append(flushes, Request(buf', "size"))
                      /\ pc' = "flushing"
                 ELSE UNCHANGED <<flushes, pc>>
         ELSE /\ dropped' = Append(dropped, Head(sub))
              /\ UNCHANGED <<accepted, buf, flushes, pc>>
    /\ UNCHANGED <<batch_size, flush_ms, now, ticker, closed, published>>
OnMessage ==
    /\ UNCHANGED plugin
    /\ pc = "select"
    /\ sub # <<>>
    /\ sub' = Tail(sub)
    /\ LET r == from_utf8(Head(sub)) IN
         IF r.ok
         THEN /\ accepted' = Append(accepted, r.s)
              /\ dropped' = dropped
              /\ buf' = push(buf, r.s)
              /\ IF SizeReached(buf')
                 THEN /\ flushes' = Append(flushes, Request(buf', "size"))
                      /\ pc' = "flushing"
                 ELSE UNCHANGED <<flushes, pc>>
         ELSE /\ dropped' = Append(dropped, Head(sub))
              /\ UNCHANGED <<accepted, buf, flushes, pc>>
    /\ UNCHANGED <<batch_size, flush_ms, now, ticker, closed, published>>

\* select! branch sub.next() => None, lines 64-68, then Ok(()) at line 78
OnClosed_drain ==
    /\ UNCHANGED plugin
    /\ pc = "select"
    /\ sub = <<>>
    /\ closed
    /\ pc' = "done"
    /\ accepted' = accepted
    /\ IF buf # <<>>
       THEN /\ flushes' = Append(flushes, [Request(buf, "timer") EXCEPT !.outcome = "success"])
            /\ buf' = <<>>
       ELSE UNCHANGED <<flushes, buf>>
    /\ UNCHANGED <<batch_size, flush_ms, now, ticker, sub, closed, published, dropped>>
OnClosed ==
    /\ UNCHANGED plugin
    /\ pc = "select"
    /\ sub = <<>>
    /\ closed
    /\ pc' = "done"
    /\ UNCHANGED <<batch_size, flush_ms, now, ticker, sub, closed, published, buf,
                   accepted, flushes, dropped>>

\* select! branch ticker.tick(), lines 70-74
OnTick ==
    /\ UNCHANGED plugin
    /\ pc = "select"
    /\ now >= ticker
    /\ ticker' = NextTick(ticker, now)
    /\ accepted' = accepted
    /\ IF TimerFlushDue(buf)
       THEN /\ flushes' = Append(flushes, Request(buf, "timer"))
            /\ pc' = "flushing"
       ELSE UNCHANGED <<flushes, pc>>
    /\ UNCHANGED <<batch_size, flush_ms, now, sub, closed, published, buf, dropped>>

\* flush from the end of send().await to its return, lines 97-107, and the
\* `?` of the caller (lines 59, 72)
FlushReturn ==
    /\ UNCHANGED plugin
    /\ pc = "flushing"
    /\ \E resp \in Responses :
         /\ flushes' = [flushes EXCEPT ![Len(flushes)].outcome = Outcome(resp)]
         /\ buf' = BufAfterFlush(resp, buf)
         /\ pc' = IF FlushResult(resp) = "Ok" THEN "select" ELSE "failed"
    /\ UNCHANGED <<batch_size, flush_ms, now, ticker, sub, closed, published,
                   accepted, dropped>>

\* ---- the plugin: the calls of the validator ----
\* on_load, lib.rs:160-166
on_load ==
    /\ calls < MaxCalls
    /\ \E file \in ConfigFiles, connect_ok \in BOOLEAN :
         LET r == load_target_from_config(
                      [target_wallet |-> target_wallet, NATS |-> NATS, SUBJECT |-> SUBJECT],
                      file, connect_ok)
         IN  /\ target_wallet' = r.st.target_wallet
             /\ NATS' = r.st.NATS
             /\ SUBJECT' = r.st.SUBJECT
             /\ loaded' = IF file.readable /\ file.json
                          THEN Some(EffectiveParams(file)) ELSE loaded
             /\ last' = [op |-> "on_load", ret |-> "Ok", loaded |-> r.ok]
    /\ calls' = calls + 1
    /\ UNCHANGED wire
    /\ UNCHANGED ingestor

\* update_account, lib.rs:189-269
update_account ==
    /\ calls < MaxCalls
    /\ \E version \in Versions, info \in AccountInfos, is_startup \in BOOLEAN,
          publish_ok \in BOOLEAN :
         /\ wire' = IF is_startup THEN wire
                    ELSE IF ~matches_target(target_wallet, info.pubkey) THEN wire
                    ELSE nats_publish(wire, Row(version, info, 7), publish_ok)
         /\ last' = [op |-> "update_account", ret |-> "Ok", version |-> version,
                     key |-> info.pubkey, is_startup |-> is_startup]
    /\ calls' = calls + 1
    /\ UNCHANGED <<target_wallet, NATS, SUBJECT, loaded>>
    /\ UNCHANGED ingestor

PluginInit ==
    /\ Init
    /\ batch_size = 0
    /\ flush_ms = 1

PluginNext ==
    \/ on_load
    \/ update_account

PluginSpec == PluginInit /\ [][PluginNext]_vars

Next ==
    \/ Publish
    \/ Close
    \/ Tick
    \/ OnMessage
    \/ OnClosed
    \/ OnTick
    \/ FlushReturn

Spec == Init /\ [][Next]_vars

TypeOK ==
    /\ batch_size \in 0..MaxBatch
    /\ flush_ms \in 1..MaxFlushMs
    /\ now \in 0..MaxTime
    /\ ticker \in 0..(MaxTime + MaxFlushMs)
    /\ closed \in BOOLEAN
    /\ published \in 0..MaxMsgs
    /\ pc \in {"select", "flushing", "done", "failed"}
    /\ Len(sub) + Len(accepted) + Len(dropped) = published

\* ---- vocabulary of the properties ----
Failures == {"bad_status", "send_error", "timeout"}

\* number of accepted messages when flush i-1 was issued
PrevUpto(i) == IF i = 1 THEN 0 ELSE flushes[i - 1].upto

\* the accepted messages numbered lo+1 .. hi, in arrival order
Arrivals(lo, hi) == SubSeq(accepted, lo + 1, hi)

\* the last flush attempt is over
LastFlushOver == flushes # <<>> /\ Last(flushes).outcome # "pending"

\* the records of all flushed batches, in flush order
RECURSIVE Flatten(_)
Flatten(fs) == IF fs = <<>> THEN <<>> ELSE Head(fs).batch \o Flatten(Tail(fs))

\* the places (flush, position) where text t was sent
SentAt(t) ==
    { ij \in (DOMAIN flushes) \X (1..MaxBatch + 1) :
        ij[2] <= Len(flushes[ij[1]].batch) /\ flushes[ij[1]].batch[ij[2]] = t }

InBuf(t) == \E j \in DOMAIN buf : buf[j] = t

\* C1: after every flush attempt, whatever its outcome, the buffer is empty
\* and the next accepted message is the first element of a new batch: once
\* the last attempt is over, the buffer holds exactly the messages accepted
\* since that attempt was issued.
C1_BufferEmptyAfterEveryFlush ==
    LastFlushOver => buf = Arrivals(Last(flushes).upto, Len(accepted))

\* C2: a sink failure of any kind during a flush does not terminate the
\* loop: no failed flush leaves main returning an error.
C2_LoopSurvivesSinkFailure ==
    (LastFlushOver /\ Last(flushes).outcome \in Failures) => pc \in {"select", "done"}

\* C3: after a flush answered with a non-success status, flush has returned
\* Ok (the loop is not failed by it), the buffer holds only messages accepted
\* after that flush was issued, and the next flushed batch is made of
\* exactly the messages accepted after it (nothing is resent).
C3_BadStatusDropsBatch ==
    \A i \in DOMAIN flushes :
        flushes[i].outcome = "bad_status" =>
            /\ i = Len(flushes) =>
                  /\ pc \in {"select", "done"}
                  /\ buf = Arrivals(flushes[i].upto, Len(accepted))
            /\ i < Len(flushes) =>
                  /\ flushes[i + 1].batch = Arrivals(flushes[i].upto, flushes[i + 1].upto)
                  /\ \A j \in DOMAIN flushes[i].batch : SentAt(flushes[i].batch[j]) = {<<i, j>>}

C3_Witness ==
    \E i \in DOMAIN flushes :
        /\ flushes[i].outcome = "bad_status"
        /\ Len(flushes[i].batch) = 2
        /\ i < Len(flushes)
        /\ flushes[i + 1].batch = <<accepted[3]>>
        /\ flushes[i + 1].outcome = "success"

\* C4: with fewer than batch_size messages in the buffer no flush request is
\* issued before a full flush interval has elapsed since the loop started.
C4_NoFlushBeforeInterval ==
    \A i \in DOMAIN flushes :
        Len(flushes[i].batch) < batch_size => flushes[i].time >= flush_ms

\* C5: when a push makes the buffer length reach batch_size, a flush is
\* issued in the same iteration, before any other message is accepted; the
\* size-triggered batch is exactly the batch_size messages accepted since
\* the previous flush, and while the loop waits the buffer holds the
\* messages accepted since the last flush.
C5_SizeFlushIsImmediate ==
    /\ (buf # <<>> /\ Len(buf) = batch_size) =>
          /\ pc \in {"flushing", "failed"}
          /\ Last(flushes).trigger = "size"
          /\ Last(flushes).batch = buf
          /\ Last(flushes).upto = Len(accepted)
    /\ \A i \in DOMAIN flushes :
          (flushes[i].trigger = "size" /\ batch_size > 0) =>
              /\ Len(flushes[i].batch) = batch_size
              /\ flushes[i].batch = Arrivals(PrevUpto(i), flushes[i].upto)
    /\ (pc = "select" /\ flushes # <<>>) =>
          buf = Arrivals(Last(flushes).upto, Len(accepted))

C5_Witness ==
    /\ batch_size = 2
    /\ Len(accepted) = 3
    /\ Len(flushes) = 1
    /\ flushes[1].trigger = "size"
    /\ flushes[1].batch = <<accepted[1], accepted[2]>>
    /\ buf = <<accepted[3]>>

\* C6: every decoded message is in at most one flush request, and a decoded
\* message that is in no flush request is still in the buffer.
C6_AtMostOneFlush ==
    \A k \in DOMAIN accepted :
        /\ Cardinality(SentAt(accepted[k])) <= 1
        /\ SentAt(accepted[k]) = {} => InBuf(accepted[k])

C6_Witness ==
    /\ Len(flushes) >= 2
    /\ \A i \in DOMAIN flushes : flushes[i].outcome = "success"
    /\ buf # <<>>
    /\ SentAt(buf[1]) = {}

\* C7: the concatenation of all flushed batches, in flush order, is a prefix
\* of the decoded messages in arrival order.
C7_FlushedIsPrefixOfAccepted ==
    LET flat == Flatten(flushes)
    IN  /\ Len(flat) <= Len(accepted)
        /\ flat = SubSeq(accepted, 1, Len(flat))

C7_Witness ==
    /\ Len(flushes) >= 2
    /\ Len(flushes[1].batch) >= 2
    /\ flushes[1].trigger = "timer"
    /\ Len(Flatten(flushes)) = 3

\* C8: handling a payload that is not valid UTF-8 leaves the buffer
\* unchanged, issues no flush and leaves the loop waiting; such a payload is
\* in no flushed batch and not in the buffer.
C8_NonUtf8Frame ==
    /\ [][ (pc = "select" /\ sub # <<>> /\ sub' = Tail(sub) /\ ~Utf8From(Head(sub), 1))
             => (buf' = buf /\ flushes' = flushes /\ pc' = "select") ]_vars
    /\ [](\A d \in DOMAIN dropped : SentAt(dropped[d]) = {} /\ ~InBuf(dropped[d]))
    /\ [](\A i \in DOMAIN flushes : \A j \in DOMAIN flushes[i].batch :
             Utf8From(flushes[i].batch[j], 1))

C8_Witness ==
    /\ dropped # <<>>
    /\ pc = "select"
    /\ buf # <<>>
    /\ flushes # <<>>
    /\ Len(accepted) + Len(dropped) = MaxMsgs

\* C9: when the source reports the stream closed the loop terminates; the
\* step that ends the loop and every later step issue no flush request, so
\* what the buffer held at closure is in no request.
C9_NoFlushAfterClose ==
    /\ [](pc = "done" => (closed /\ sub = <<>>))
    /\ [][ pc' = "done" => (flushes' = flushes /\ buf' = buf) ]_vars
    /\ [](pc = "done" => \A j \in DOMAIN buf : SentAt(buf[j]) = {})

C9_Witness ==
    /\ pc = "done"
    /\ Len(buf) = 2
    /\ flushes # <<>>

\* C10 as stated: for every configured maximum the buffer length never
\* exceeds the maximum, and while the loop waits the buffer is empty (Idle)
\* or holds 1..max-1 items (Accumulating).
C10_NeverExceedsMax ==
    /\ Len(buf) <= batch_size
    /\ pc = "select" => (buf = <<>> \/ Len(buf) \in 1..(batch_size - 1))

\* C10 amended: for every configured maximum of at least 1 the buffer
\* length never exceeds the maximum and is strictly below it while the loop
\* waits; with a maximum of 0 the buffer holds at most one item and is
\* empty while the loop waits.
EffectiveMax == IF batch_size = 0 THEN 1 ELSE batch_size

C10_NeverExceedsEffectiveMax ==
    /\ Len(buf) <= EffectiveMax
    /\ pc = "select" => Len(buf) < EffectiveMax

C10_Witness ==
    /\ batch_size = MaxBatch
    /\ Len(buf) = batch_size
    /\ pc = "flushing"
    /\ Len(flushes) = 1

\* the records of b, each followed by one newline
RECURSIVE Lines(_)
Lines(b) == IF b = <<>> THEN <<>> ELSE Head(b) \o <<NEWLINE>> \o Lines(Tail(b))

\* C11: a flush of k buffered texts issues exactly one request, whose body
\* is the k texts in buffer order, each followed by one newline.
C11_BodyIsEachTextPlusNewline ==
    /\ [](\A i \in DOMAIN flushes : flushes[i].body = Lines(flushes[i].batch))
    /\ [][ (pc # "flushing" /\ pc' = "flushing")
             => (Len(flushes') = Len(flushes) + 1 /\ Last(flushes').batch = buf') ]_vars
    /\ [][ ~(pc # "flushing" /\ pc' = "flushing") => Len(flushes') = Len(flushes) ]_vars

C11_Witness ==
    /\ Len(flushes) = 1
    /\ Len(flushes[1].batch) = 2
    /\ flushes[1].body = <<49, NEWLINE, 50, 195, 169, NEWLINE>>
    /\ flushes[1].outcome = "success"

\* first byte of the n-th published payload
Tag(n) == 48 + n

\* the payloads of s carry strictly increasing publication numbers
Ascending(s) == \A i, j \in DOMAIN s : i < j => s[i][1] < s[j][1]

\* C13: while a flush request is outstanding the buffer is not mutated, no
\* message is taken from the subscription and no tick is processed; the
\* messages that arrive meanwhile are queued, none is lost, and messages are
\* taken in their arrival order.
C13_FlushIsSerialized ==
    /\ [][ pc = "flushing" =>
             /\ accepted' = accepted
             /\ dropped' = dropped
             /\ ticker' = ticker
             /\ (sub' = sub \/ (Len(sub') = Len(sub) + 1 /\ SubSeq(sub', 1, Len(sub)) = sub))
             /\ (pc' = "flushing" => (buf' = buf /\ flushes' = flushes)) ]_vars
    /\ [](Len(sub) + Len(accepted) + Len(dropped) = published)
    /\ [](Ascending(accepted \o sub) /\ Ascending(dropped \o sub))

C13_Witness ==
    /\ batch_size = 1
    /\ Len(flushes) = 2
    /\ flushes[1].outcome = "bad_status"
    /\ flushes[2].batch = <<accepted[2]>>
    /\ pc = "flushing"
    /\ Len(sub) = 1
    /\ sub[1][1] = Tag(3)

\* the timer-triggered flushes
TimerFlushes == { i \in DOMAIN flushes : flushes[i].trigger = "timer" }

\* C14: ticks are never queued. Processing a tick, however late, leaves the
\* next tick strictly in the future and on the interval grid, so a stall
\* over several intervals yields one tick; two timer-triggered flushes never
\* fall into the same interval.
C14_NoCatchUpBurst ==
    /\ [][ ticker' # ticker =>
             /\ ticker' > now
             /\ ticker' <= now + flush_ms
             /\ ticker' % flush_ms = 0 ]_vars
    /\ [](\A i, j \in TimerFlushes :
             i < j => /\ flushes[j].due > flushes[i].time
                      /\ flushes[i].time \div flush_ms < flushes[j].time \div flush_ms)

C14_Witness ==
    /\ Len(flushes) = 2
    /\ flushes[1].trigger = "size"
    /\ flushes[1].time = 0
    /\ flushes[2].trigger = "timer"
    /\ flushes[2].time >= flushes[2].due + 2 * flush_ms
    /\ ticker = flushes[2].time + flush_ms
    /\ pc = "select"

\* C15: no request is issued for an empty batch, whatever the trigger and
\* the configured maximum; a tick with an empty buffer changes neither the
\* buffer nor the requests and leaves the loop waiting.
C15_NeverFlushesEmpty ==
    /\ [](\A i \in DOMAIN flushes : flushes[i].batch # <<>>)
    /\ [][ (pc = "select" /\ ticker' # ticker /\ buf = <<>>)
             => (buf' = buf /\ flushes' = flushes /\ pc' = "select") ]_vars

C15_Witness ==
    /\ batch_size = 0
    /\ ticker > flush_ms
    /\ buf = <<>>
    /\ pc = "select"
    /\ Len(flushes) = 2
    /\ flushes[2].time < ticker - flush_ms

\* ---- liveness ----
\* The clock advances, and a due tick wakes the select! (tokio's timer
\* driver) and is taken unless the loop moves on to a flush first.
LiveSpec ==
    /\ Init
    /\ [][Next]_vars
    /\ WF_vars(Tick)
    /\ WF_vars(OnTick)

\* C12: while the stream is not closed and ticks keep being processed (the
\* clock of the model stops at MaxTime, so: while the next tick falls within
\* that horizon), a non-empty buffer does not persist: the loop leaves its
\* wait with a flush request, issued by the size trigger or by the next
\* tick, and that request carries every message the buffer holds.
C12_BufferedIsEventuallyFlushed ==
    /\ (pc = "select" /\ buf # <<>> /\ ticker <= MaxTime)
          ~> (pc = "flushing" \/ closed)
    /\ [](pc = "flushing" => Last(flushes).batch = buf)

C12_Witness ==
    /\ batch_size = 3
    /\ ~closed
    /\ Len(accepted) = 2
    /\ Len(flushes) = 1
    /\ flushes[1].trigger = "timer"
    /\ flushes[1].time = flush_ms
    /\ flushes[1].batch = accepted
    /\ flushes[1].outcome = "success"
    /\ buf = <<>>

\* ---- the plugin: properties ----
\* the step is a call of update_account
UpdateStep == calls' = calls + 1 /\ last'.op = "update_account"

\* C16: update_account publishes only when the notification is not a
\* startup notification and the key equals the configured target wallet or
\* no target is configured; a startup notification or a non-matching key
\* publishes nothing, for every account-info version, and the call returns
\* Ok in all cases.
C16_PublishesOnlyMatching ==
    [][ UpdateStep =>
          /\ last'.ret = "Ok"
          /\ wire' # wire =>
                /\ ~last'.is_startup
                /\ (target_wallet = None \/ target_wallet = Some(last'.key))
                /\ Len(wire') = Len(wire) + 1
                /\ bs58_decode(Last(wire').payload.pubkey).bytes = last'.key
          /\ (last'.is_startup \/ (target_wallet # None /\ target_wallet # Some(last'.key)))
                => wire' = wire ]_vars

C16_Witness ==
    /\ last.op = "update_account"
    /\ last.version = "V0_0_1"
    /\ target_wallet = Some(last.key)
    /\ Len(wire) = 1
    /\ wire[1].payload.write_ver = 0
    /\ wire[1].payload.pubkey = B58_A

\* C17: when the most recently loaded config contains no target_wallet the
\* plugin emits all accounts: matches_target is true for every key.
C17_NoTargetEmitsAll ==
    (loaded # None /\ loaded[1].target_wallet = None)
        => \A k \in Keys : matches_target(target_wallet, k)

\* C18: the NATS connection and the subject are set at most once: once set
\* they never change, they are set by the same load and hold the URL and
\* subject of that load's config (or the defaults); while no connection is
\* set nothing is sent and update_account returns Ok.
C18_SetOnce ==
    /\ [][ NATS # None => NATS' = NATS ]_vars
    /\ [][ SUBJECT # None => SUBJECT' = SUBJECT ]_vars
    /\ [][ (NATS = None /\ NATS' # None) =>
             /\ NATS' = Some([url |-> unwrap_or(loaded'[1].nats_url, DEFAULT_URL)])
             /\ SUBJECT' = Some(unwrap_or(loaded'[1].nats_subject, DEFAULT_SUBJECT)) ]_vars
    /\ [][ (NATS = None /\ UpdateStep) => (wire' = wire /\ last'.ret = "Ok") ]_vars
    /\ []((NATS = None) <=> (SUBJECT = None))
    /\ [](NATS = None => wire = <<>>)
    /\ [](\A i \in DOMAIN wire : SUBJECT = Some(wire[i].subject))

C18_Witness ==
    /\ NATS = Some([url |-> DEFAULT_URL])
    /\ SUBJECT = Some(DEFAULT_SUBJECT)
    /\ last.op = "on_load"
    /\ last.loaded
    /\ loaded[1].nats_url = Some("nats://other:4222")
    /\ loaded[1].nats_subject = Some("OTHER.updates")
    /\ calls = MaxCalls
    /\ Len(wire) = 1
====
